---------------------------- MODULE Spec2Model ----------------------------
(***************************************************************************)
(* Model of the real-time synchronisation core of DeFi_Analytics: the      *)
(* zustand store useWebSocketStore (connection lifecycle, subscription     *)
(* registry, message router, bounded buffers) and the arbitrage            *)
(* reconciliation done by useArbitrage and ArbitragePanel.                 *)
(***************************************************************************)
EXTENDS Integers, Sequences, FiniteSets, TLC

VARIABLES
    ws,               \* store field ws: 0 models null, n >= 1 the n-th WebSocket created
    connected,        \* store field connected
    priceUpdates,     \* store field priceUpdates
    arbitrageAlerts,  \* store field arbitrageAlerts
    yieldUpdates,     \* store field yieldUpdates
    subscriptions,    \* store field subscriptions: a JS Set, kept in insertion order
    readyState,       \* readyState of every WebSocket created so far
    sent,             \* per WebSocket, the requests handed to ws.send, in order
    timers,           \* number of pending setTimeout(connect, 5000) timers
    heartbeatTimer,   \* the module-level setInterval of the heartbeat is scheduled
    data,             \* react-query snapshot of arbitrageAPI.getOpportunities
    opportunities,    \* value of the useArbitrage memo
    allOpportunities, \* value of the ArbitragePanel memo
    sortEngine,       \* the Array.prototype.sort algorithm of the JS engine the page runs in
    yieldData,        \* react-query snapshot of yieldAPI.getOpportunities
    yieldOpportunities, \* the opportunities that useYieldData returns
    stats,            \* value of the stats memo of useYieldData
    lastToast,        \* the notification most recently raised through toast
    nAlertToasts,     \* number of high-profit notifications raised by the router
    nRouted,          \* history: per message type, how many messages were routed
    afterDrop,        \* history: a frame failed to parse, and a message was routed since
    userDisconnected, \* history: disconnect() was called and connect() was not since
    wanted            \* history: channels passed to subscribe() and not to unsubscribe() since

vars == <<ws, connected, priceUpdates, arbitrageAlerts, yieldUpdates,
          subscriptions, readyState, sent, timers, heartbeatTimer, data,
          opportunities, allOpportunities, sortEngine, yieldData, yieldOpportunities, stats,
          lastToast, nAlertToasts, nRouted,
          afterDrop, userDisconnected, wanted>>

storeBuffers == <<priceUpdates, arbitrageAlerts, yieldUpdates, nAlertToasts,
                  nRouted, afterDrop>>
views == <<data, opportunities, allOpportunities, sortEngine, yieldData,
           yieldOpportunities, stats>>
history == <<userDisconnected, wanted>>

-----------------------------------------------------------------------------
(* Bounds of the model *)

MaxSockets == 2   \* WebSockets created in one behaviour
MaxSent == 1      \* requests sent in one behaviour before subscribe, unsubscribe and sendPing stop sending
Overflow == 2     \* messages routed per type beyond the capacity under SpecBuf
MaxLen == 2       \* length of the reconcile inputs under SpecRec
MaxMsgs == 2      \* messages routed to the buffers in one behaviour under SpecRouter
MaxYields == 2    \* length of the polled yield snapshot under SpecYield

(* Program constants *)

PriceCapacity == 100
ArbitrageCapacity == 50
YieldCapacity == 50

-----------------------------------------------------------------------------
(* Helpers *)

Range(s) == {s[i] : i \in DOMAIN s}
Min(a, b) == IF a < b THEN a ELSE b

NULL == 0

\* JS values of a numeric field: a number, or a value that ToNumber turns into
\* NaN (undefined when the field is missing, text that is no number)
Num(n) == [type |-> "number", nan |-> FALSE, num |-> n]
Str(n) == [type |-> "string", nan |-> FALSE, num |-> n]
Undefined == [type |-> "undefined", nan |-> TRUE, num |-> 0]
NotANumber == [type |-> "string", nan |-> TRUE, num |-> 0]

\* opportunity_id of a record that has no such field (undefined)
MissingId == 0

Channels == {"prices", "arbitrage"}
ChannelLists == {<<>>, <<"prices">>, <<"arbitrage">>, <<"prices", "arbitrage">>}

Sockets == DOMAIN readyState

\* ConnectionState as published by the store fields
ConnState ==
    IF connected THEN "Connected"
    ELSE IF ws # NULL THEN "Connecting"
    ELSE "Disconnected"

\* ws && ws.readyState === WebSocket.OPEN
WsOpen == ws # NULL /\ readyState[ws] = "OPEN"

RECURSIVE SumLen(_)
SumLen(logs) == IF logs = <<>> THEN 0 ELSE Len(Head(logs)) + SumLen(Tail(logs))

\* number of requests sent so far, on all WebSockets
TotalSent == SumLen(sent)

\* ws.send(JSON.stringify(req)) on WebSocket s
Send(s, req) == [sent EXCEPT ![s] = Append(@, req)]


-----------------------------------------------------------------------------
(* Subscription Registry: a JS Set of channel names *)

RECURSIVE SetAddAll(_, _)
\* new Set([...subscriptions, ...channels])
SetAddAll(subs, chans) ==
    IF chans = <<>> THEN subs
    ELSE SetAddAll(IF Head(chans) \in Range(subs) THEN subs
                   ELSE Append(subs, Head(chans)),
                   Tail(chans))

\* channels.forEach(ch => newSubscriptions.delete(ch))
SetDeleteAll(subs, chans) ==
    SelectSeq(subs, LAMBDA c : c \notin Range(chans))

SubscribeRequest(chans) == [type |-> "subscribe", channels |-> chans]
UnsubscribeRequest(chans) == [type |-> "unsubscribe", channels |-> chans]
PingRequest == [type |-> "ping", channels |-> <<>>]

-----------------------------------------------------------------------------
(* Connection Manager *)

\* body of connect(): new WebSocket(WS_URL), handlers installed, set({ ws })
DoConnect ==
    /\ Len(readyState) < MaxSockets
    /\ readyState' = Append(readyState, "CONNECTING")
    /\ sent' = Append(sent, <<>>)
    /\ ws' = Len(readyState) + 1
    /\ UNCHANGED <<heartbeatTimer, lastToast, connected, subscriptions, storeBuffers, views, wanted>>

\* connect() called by a consumer (App's mount effect)
Connect ==
    /\ DoConnect
    /\ timers' = timers
    /\ userDisconnected' = FALSE

\* the setTimeout callback scheduled by ws.onclose runs: get().connect()
ReconnectTimerFires ==
    /\ timers > 0
    /\ DoConnect
    /\ timers' = timers - 1
    /\ userDisconnected' = userDisconnected

\* ws.onopen that clears the registry instead of replaying it
OnOpenForgets(s) ==
    /\ readyState[s] = "CONNECTING"
    /\ readyState' = [readyState EXCEPT ![s] = "OPEN"]
    /\ connected' = TRUE
    /\ ws' = s
    /\ subscriptions' = <<>>
    /\ lastToast' = "connected"
    /\ UNCHANGED <<heartbeatTimer, sent, timers, storeBuffers, views, history>>

\* ws.onopen of WebSocket s
OnOpen(s) ==
    /\ readyState[s] = "CONNECTING"
    /\ readyState' = [readyState EXCEPT ![s] = "OPEN"]
    /\ connected' = TRUE
    /\ ws' = s
    /\ sent' = IF Len(subscriptions) > 0
               THEN Send(s, SubscribeRequest(subscriptions))
               ELSE sent
    /\ lastToast' = "connected"
    /\ UNCHANGED <<heartbeatTimer, subscriptions, timers, storeBuffers, views, history>>

\* A close handler that schedules no reconnect
OnCloseNoRetry(s) ==
    /\ readyState[s] # "CLOSED"
    /\ readyState' = [readyState EXCEPT ![s] = "CLOSED"]
    /\ connected' = FALSE
    /\ ws' = NULL
    /\ lastToast' = "disconnected"
    /\ UNCHANGED <<heartbeatTimer, timers, subscriptions, sent, storeBuffers,
                   views, history>>

\* ws.onclose of WebSocket s: the handshake failed, the peer or the network
\* closed the transport, or ws.close() completed
OnClose(s) ==
    /\ readyState[s] # "CLOSED"
    /\ readyState' = [readyState EXCEPT ![s] = "CLOSED"]
    /\ connected' = FALSE
    /\ ws' = NULL
    /\ timers' = timers + 1
    /\ lastToast' = "disconnected"
    /\ UNCHANGED <<heartbeatTimer, subscriptions, sent, storeBuffers, views, history>>

\* An error handler that also gives up the connection
OnErrorDisconnects(s) ==
    /\ readyState[s] # "CLOSED"
    /\ lastToast' = "error"
    /\ connected' = FALSE
    /\ ws' = NULL
    /\ UNCHANGED <<heartbeatTimer, subscriptions, readyState, sent, timers, storeBuffers,
                   views, history>>

\* ws.onerror of WebSocket s: logs and raises a toast
OnError(s) ==
    /\ readyState[s] # "CLOSED"
    /\ lastToast' = "error"
    /\ UNCHANGED <<heartbeatTimer, ws, connected, subscriptions, readyState, sent, timers,
                   storeBuffers, views, history>>

\* ws.close(): a WebSocket that is connecting or open starts closing
CloseSocket(s) ==
    IF readyState[s] \in {"CONNECTING", "OPEN"}
    THEN [readyState EXCEPT ![s] = "CLOSING"]
    ELSE readyState

\* A disconnect() that also empties the buffers
DisconnectClearsBuffers ==
    /\ IF ws # NULL
       THEN /\ readyState' = CloseSocket(ws)
            /\ ws' = NULL
            /\ connected' = FALSE
       ELSE UNCHANGED <<readyState, ws, connected>>
    /\ priceUpdates' = <<>>
    /\ arbitrageAlerts' = <<>>
    /\ yieldUpdates' = <<>>
    /\ userDisconnected' = TRUE
    /\ UNCHANGED <<heartbeatTimer, lastToast, subscriptions, sent, timers, nAlertToasts,
                   nRouted, afterDrop, views, wanted>>

\* disconnect()
Disconnect ==
    /\ IF ws # NULL
       THEN /\ readyState' = CloseSocket(ws)
            /\ ws' = NULL
            /\ connected' = FALSE
       ELSE UNCHANGED <<readyState, ws, connected>>
    /\ userDisconnected' = TRUE
    /\ UNCHANGED <<heartbeatTimer, lastToast, subscriptions, sent, timers, storeBuffers, views, wanted>>

\* subscribe(channels)
Subscribe(channels) ==
    /\ IF WsOpen
       THEN /\ TotalSent < MaxSent
            /\ sent' = Send(ws, SubscribeRequest(channels))
            /\ subscriptions' = SetAddAll(subscriptions, channels)
       ELSE UNCHANGED <<sent, subscriptions>>
    /\ wanted' = wanted \cup Range(channels)
    /\ UNCHANGED <<heartbeatTimer, lastToast, ws, connected, readyState, timers, storeBuffers, views,
                   userDisconnected>>

\* unsubscribe(channels)
Unsubscribe(channels) ==
    /\ IF WsOpen
       THEN /\ TotalSent < MaxSent
            /\ sent' = Send(ws, UnsubscribeRequest(channels))
            /\ subscriptions' = SetDeleteAll(subscriptions, channels)
       ELSE UNCHANGED <<sent, subscriptions>>
    /\ wanted' = wanted \ Range(channels)
    /\ UNCHANGED <<heartbeatTimer, lastToast, ws, connected, readyState, timers, storeBuffers, views,
                   userDisconnected>>

\* body of sendPing()
DoSendPing ==
    IF WsOpen
    THEN /\ TotalSent < MaxSent
         /\ sent' = Send(ws, PingRequest)
    ELSE sent' = sent

\* sendPing() called by a consumer
SendPing ==
    /\ DoSendPing
    /\ UNCHANGED <<heartbeatTimer, lastToast, ws, connected, subscriptions, readyState, timers,
                   storeBuffers, views, history>>

\* the module-level setInterval callback, every 30 s
Heartbeat ==
    /\ heartbeatTimer
    /\ IF connected THEN DoSendPing ELSE sent' = sent
    /\ UNCHANGED <<heartbeatTimer, lastToast, ws, connected, subscriptions, readyState, timers,
                   storeBuffers, views, history>>

-----------------------------------------------------------------------------
(* Message Router and Bounded Event Buffers *)

BufferTypes == {"price_update", "arbitrage_alert", "yield_update"}
InfoTypes == {"connected", "subscribed", "pong", "unknown"}

Capacity(type) ==
    CASE type = "price_update" -> PriceCapacity
      [] type = "arbitrage_alert" -> ArbitrageCapacity
      [] type = "yield_update" -> YieldCapacity

\* Prepend without the slice: the buffer is never cut to its capacity
PrependUnbounded(payload, buffer, capacity) == <<payload>> \o buffer

\* The payload put behind the buffer's records
PrependBehind(payload, buffer, capacity) ==
    SubSeq(buffer \o <<payload>>, 1, Min(Len(buffer) + 1, capacity))

\* [payload, ...buffer].slice(0, capacity)
Prepend(payload, buffer, capacity) ==
    SubSeq(<<payload>> \o buffer, 1, Min(Len(buffer) + 1, capacity))

\* data.data of the k-th message of a type that the feed delivers; seq
\* identifies the payload object and is not read by the client.
Payload(type, k) ==
    CASE type = "price_update" -> [symbol |-> "ETH", seq |-> k]
      [] type = "arbitrage_alert" ->
            [opportunity_id |-> 1 + (k % 2),
             profit_percent |-> Num(1 + 2 * (k % 2)), seq |-> k]
      [] type = "yield_update" -> [pool_address |-> "0xA", apy |-> Num(5), seq |-> k]
      [] OTHER -> [seq |-> 0]

\* event.data: text that JSON.parse rejects, or the text of {type, data}
Unparseable == [parses |-> FALSE]
Envelope(type, payload) == [parses |-> TRUE, type |-> type, data |-> payload]

\* data.data of a message that has no data field (undefined)
NoPayload == [undefined |-> TRUE]

HighProfitThreshold == 2

\* data.data.profit_percent > 2.0: a string operand is converted with ToNumber
IsHighProfit(payload) ==
    /\ ~payload.profit_percent.nan
    /\ payload.profit_percent.num > HighProfitThreshold

\* The arbitrage_alert case after its set(): reading profit_percent of
\* undefined throws, and so does toFixed on a value that is no number; the
\* toast is raised when neither happens
RaisesAlertToast(payload) ==
    /\ payload # NoPayload
    /\ IsHighProfit(payload)
    /\ payload.profit_percent.type = "number"

\* A catch block that gives up the connection
CatchParseErrorFatal(s) ==
    /\ readyState' = [readyState EXCEPT ![s] = "CLOSING"]
    /\ connected' = FALSE
    /\ afterDrop' = "dropped"
    /\ UNCHANGED <<heartbeatTimer, ws, subscriptions, sent, timers, priceUpdates,
                   arbitrageAlerts, yieldUpdates, nAlertToasts, nRouted,
                   lastToast, views, userDisconnected, wanted>>

\* JSON.parse(event.data) throws: the catch block logs the error
CatchParseError(s) ==
    /\ afterDrop' = "dropped"
    /\ UNCHANGED <<heartbeatTimer, ws, connected, subscriptions, readyState, sent, timers,
                   priceUpdates, arbitrageAlerts, yieldUpdates, nAlertToasts,
                   nRouted, lastToast, views, userDisconnected, wanted>>

\* switch (data.type) on the parsed message {type, data: payload}; what the
\* arbitrage_alert case throws after its set() is caught and logged
Route(type, payload) ==
    /\ priceUpdates' =
          IF type = "price_update"
          THEN Prepend(payload, priceUpdates, PriceCapacity)
          ELSE priceUpdates
    /\ arbitrageAlerts' =
          IF type = "arbitrage_alert"
          THEN Prepend(payload, arbitrageAlerts, ArbitrageCapacity)
          ELSE arbitrageAlerts
    /\ yieldUpdates' =
          IF type = "yield_update"
          THEN Prepend(payload, yieldUpdates, YieldCapacity)
          ELSE yieldUpdates
    /\ IF type = "arbitrage_alert" /\ RaisesAlertToast(payload)
       THEN /\ nAlertToasts' = nAlertToasts + 1
            /\ lastToast' = "alert"
       ELSE UNCHANGED <<nAlertToasts, lastToast>>
    /\ nRouted' = IF type \in BufferTypes
                  THEN [nRouted EXCEPT ![type] = @ + 1]
                  ELSE nRouted
    /\ afterDrop' = IF type \in BufferTypes /\ afterDrop = "dropped"
                    THEN "routed"
                    ELSE afterDrop
    /\ UNCHANGED <<heartbeatTimer, ws, connected, subscriptions, readyState, sent, timers,
                   views, userDisconnected, wanted>>

\* ws.onmessage of WebSocket s with event.data = frame
OnMessage(s, frame) ==
    /\ readyState[s] = "OPEN"
    /\ IF frame.parses
       THEN Route(frame.type, frame.data)
       ELSE CatchParseError(s)

\* A message of a type that feeds no buffer arrives on an open WebSocket
ReceiveInfo ==
    \E s \in Sockets, type \in InfoTypes :
        OnMessage(s, Envelope(type, Payload(type, 0)))

\* A message for a buffer arrives, at most Overflow beyond the buffer's capacity
ReceiveFeed ==
    \E s \in Sockets, type \in BufferTypes :
        /\ nRouted[type] < Capacity(type) + Overflow
        /\ OnMessage(s, Envelope(type, Payload(type, nRouted[type] + 1)))

\* The frames a server, or anything between it and the client, may deliver
AlertProfits == {Num(2), Num(3), Str(2), Str(3)}

Frames ==
    {Unparseable}
       \cup {Envelope(type, Payload(type, 0)) : type \in InfoTypes}
       \cup {Envelope(type, NoPayload) : type \in BufferTypes}
       \cup {Envelope(type, Payload(type, 0)) : type \in {"price_update", "yield_update"}}
       \cup {Envelope("arbitrage_alert",
                      [opportunity_id |-> 1, profit_percent |-> p, seq |-> 0]) :
                p \in AlertProfits}

RoutedTotal ==
    nRouted["price_update"] + nRouted["arbitrage_alert"] + nRouted["yield_update"]

\* Any frame arrives on an open WebSocket, at most MaxMsgs of them for buffers
Receive ==
    \E s \in Sockets, frame \in Frames :
        /\ (frame.parses /\ frame.type \in BufferTypes) => RoutedTotal < MaxMsgs
        /\ OnMessage(s, frame)

-----------------------------------------------------------------------------
(* Reconciliation Engine: the opportunities memo of useArbitrage and the     *)
(* allOpportunities memo of ArbitragePanel                                   *)

\* A memo's value: not computed before the first render; threw when the
\* computation raised an exception
NotRendered == [rendered |-> FALSE, threw |-> FALSE, value |-> <<>>]
Rendered(v) == [rendered |-> TRUE, threw |-> FALSE, value |-> v]
Threw == [rendered |-> TRUE, threw |-> TRUE, value |-> <<>>]

\* An alert that is a JS string is [str |-> <<v>>] when JSON.parse gives v and
\* [str |-> <<>>] when JSON.parse throws; any other alert is the record itself.
IsString(alert) == "str" \in DOMAIN alert
ParseThrows(alert) == alert.str = <<>>
JsonParse(alert) == alert.str[1]

\* wsAlerts.map(alert => { try {...} catch (e) { return null; } }).filter(Boolean)
ParseAlertsHook(alerts) ==
    LET Kept(i) == ~(IsString(alerts[i]) /\ ParseThrows(alerts[i]))
        keptIdx == SelectSeq([i \in DOMAIN alerts |-> i], Kept)
    IN  [k \in DOMAIN keptIdx |->
            IF IsString(alerts[keptIdx[k]])
            THEN JsonParse(alerts[keptIdx[k]])
            ELSE alerts[keptIdx[k]]]

\* arbitrageAlerts.map(alert => typeof alert === 'string' ? JSON.parse(alert) : alert)
PanelParseThrows(alerts) ==
    \E i \in DOMAIN alerts : IsString(alerts[i]) /\ ParseThrows(alerts[i])

ParseAlertsPanel(alerts) ==
    [i \in DOMAIN alerts |->
        IF IsString(alerts[i]) THEN JsonParse(alerts[i]) ELSE alerts[i]]

\* The merge with the polled records first
MergePolledFirst(wsOpps, apiOpps) == apiOpps \o wsOpps

\* [...wsOpps, ...apiOpps]
Merge(wsOpps, apiOpps) == wsOpps \o apiOpps

RECURSIVE UniqueFrom(_, _)
\* merged.reduce((acc, opp) => { if (!acc.find(same opportunity_id)) acc.push(opp) }, [])
UniqueFrom(acc, rest) ==
    IF rest = <<>> THEN acc
    ELSE UniqueFrom(
            IF \E i \in DOMAIN acc : acc[i].opportunity_id = Head(rest).opportunity_id
            THEN acc
            ELSE Append(acc, Head(rest)),
            Tail(rest))

\* No deduplication: every merged record is kept
UniqueKeepsAll(merged) == merged

Unique(merged) == UniqueFrom(<<>>, merged)

\* the comparator (a, b) => b.profit_percent - a.profit_percent, as the sort
\* reads it: subtraction converts both operands with ToNumber, and a NaN
\* result counts as +0
Compare(a, b) ==
    IF a.profit_percent.nan \/ b.profit_percent.nan THEN 0
    ELSE b.profit_percent.num - a.profit_percent.num

RECURSIVE InsertUnstable(_, _)
\* Insertion that also moves x in front of the elements that compare equal
InsertUnstable(sorted, x) ==
    IF sorted = <<>> THEN <<x>>
    ELSE LET last == sorted[Len(sorted)]
         IN  IF Compare(last, x) >= 0
             THEN Append(InsertUnstable(SubSeq(sorted, 1, Len(sorted) - 1), x), last)
             ELSE Append(sorted, x)

RECURSIVE InsertStable(_, _)
\* insertion sort step: x moves in front of the trailing elements that the
\* comparator orders after it
InsertStable(sorted, x) ==
    IF sorted = <<>> THEN <<x>>
    ELSE LET last == sorted[Len(sorted)]
         IN  IF Compare(last, x) > 0
             THEN Append(InsertStable(SubSeq(sorted, 1, Len(sorted) - 1), x), last)
             ELSE Append(sorted, x)

RECURSIVE SortFrom(_, _)
SortFrom(sorted, rest) ==
    IF rest = <<>> THEN sorted
    ELSE SortFrom(InsertStable(sorted, Head(rest)), Tail(rest))

RECURSIVE RunLength(_, _, _)
\* TimSort's CountAndMakeRun: the length of the run that starts the array
RunLength(array, idx, descending) ==
    IF idx > Len(array) THEN idx - 1
    ELSE LET order == Compare(array[idx], array[idx - 1])
         IN  IF (descending /\ order >= 0) \/ (~descending /\ order < 0)
             THEN idx - 1
             ELSE RunLength(array, idx + 1, descending)

RECURSIVE BinaryInsertPos(_, _, _, _)
\* TimSort's binary search for the place of pivot in array[left+1 .. right]
BinaryInsertPos(array, pivot, left, right) ==
    IF left >= right THEN left
    ELSE LET mid == left + ((right - left) \div 2)
         IN  IF Compare(pivot, array[mid + 1]) < 0
             THEN BinaryInsertPos(array, pivot, left, mid)
             ELSE BinaryInsertPos(array, pivot, mid + 1, right)

RECURSIVE BinaryInsertionSort(_, _)
\* TimSort's BinaryInsertionSort: array[1 .. start] is the run, the rest is inserted
BinaryInsertionSort(array, start) ==
    IF start >= Len(array) THEN array
    ELSE LET pivot == array[start + 1]
             pos == BinaryInsertPos(array, pivot, 0, start)
         IN  BinaryInsertionSort(
                SubSeq(array, 1, pos) \o <<pivot>> \o SubSeq(array, pos + 1, start)
                   \o SubSeq(array, start + 2, Len(array)),
                start + 1)

\* TimSort on an array shorter than its minimal run length (64): one run is
\* counted, reversed when it descends, and the rest inserted
TimSort(array) ==
    IF Len(array) < 2 THEN array
    ELSE LET descending == Compare(array[2], array[1]) < 0
             run == RunLength(array, 3, descending)
             made == IF descending
                     THEN [i \in DOMAIN array |->
                              IF i <= run THEN array[run + 1 - i] ELSE array[i]]
                     ELSE array
         IN  BinaryInsertionSort(made, run)

SortEngines == {"timsort", "insertion"}

\* unique.sort(comparator): a stable sort; the order it gives when the
\* comparator is inconsistent depends on the engine's algorithm
SortByProfit(unique) ==
    IF sortEngine = "timsort" THEN TimSort(unique) ELSE SortFrom(<<>>, unique)

\* the opportunities memo of useArbitrage
ReconcileHook(wsAlerts, apiData) ==
    Rendered(SortByProfit(Unique(Merge(ParseAlertsHook(wsAlerts), apiData))))

\* the allOpportunities memo of ArbitragePanel
ReconcilePanel(alerts, apiData) ==
    IF PanelParseThrows(alerts) THEN Threw
    ELSE Rendered(SortByProfit(Unique(Merge(ParseAlertsPanel(alerts), apiData))))

\* A render that sorts the polled snapshot in place before merging it
UseArbitrageSortsData ==
    /\ data' = SortByProfit(data)
    /\ opportunities' = ReconcileHook(arbitrageAlerts, data')
    /\ UNCHANGED <<yieldData, yieldOpportunities, stats, heartbeatTimer, lastToast, ws, connected, subscriptions, readyState, sent, timers,
                   storeBuffers, allOpportunities, sortEngine, history>>

\* useArbitrage renders: the memo is computed from the store and the snapshot
UseArbitrage ==
    /\ opportunities' = ReconcileHook(arbitrageAlerts, data)
    /\ UNCHANGED <<yieldData, yieldOpportunities, stats, heartbeatTimer, lastToast, ws, connected, subscriptions, readyState, sent, timers,
                   storeBuffers, data, allOpportunities, sortEngine, history>>

\* ArbitragePanel renders
RenderArbitragePanel ==
    /\ allOpportunities' = ReconcilePanel(arbitrageAlerts, data)
    /\ UNCHANGED <<yieldData, yieldOpportunities, stats, heartbeatTimer, lastToast, ws, connected, subscriptions, readyState, sent, timers,
                   storeBuffers, data, opportunities, sortEngine, history>>

-----------------------------------------------------------------------------
(* Yield view and aggregation: useYieldData *)

\* data of useQuery: undefined until the first response, then response.data
NotLoaded == [loaded |-> FALSE, value |-> <<>>]
Loaded(v) == [loaded |-> TRUE, value |-> v]

\* data || []
OrEmpty(query) == IF query.loaded THEN query.value ELSE <<>>

\* JS numbers as fractions; nan is the result of an operation that has no
\* finite value
Number(n) == [nan |-> FALSE, num |-> n, den |-> 1]
NaN == [nan |-> TRUE, num |-> 0, den |-> 1]

\* parseFloat(field): a number, the number a decimal string spells, or NaN
ParseFloat(field) == IF field.nan THEN NaN ELSE Number(field.num)

\* a + b on JS numbers
Plus(a, b) ==
    IF a.nan \/ b.nan THEN NaN
    ELSE [nan |-> FALSE, num |-> a.num * b.den + b.num * a.den, den |-> a.den * b.den]

\* a / n on a JS number and a count; 0 / 0 is NaN
DividedBy(a, n) ==
    IF a.nan \/ n = 0 THEN NaN
    ELSE [nan |-> FALSE, num |-> a.num, den |-> a.den * n]

RECURSIVE GroupBy(_, _, _)
\* the forEach of the stats memo for one of its two grouping objects: the
\* group of opp[field] is created on first sight, its count incremented, and
\* parseFloat(opp.tvl) and opp.apy added to its totals
GroupBy(groups, opps, field) ==
    IF opps = <<>> THEN groups
    ELSE LET opp == Head(opps)
             key == opp[field]
             group == IF key \in DOMAIN groups
                      THEN groups[key]
                      ELSE [count |-> 0, totalTvl |-> Number(0), avgApy |-> Number(0)]
             updated == [count |-> group.count + 1,
                         totalTvl |-> Plus(group.totalTvl, ParseFloat(opp.tvl)),
                         avgApy |-> Plus(group.avgApy, Number(opp.apy.num))]
         IN  GroupBy([k \in DOMAIN groups \cup {key} |->
                         IF k = key THEN updated ELSE groups[k]],
                     Tail(opps), field)

\* Rollups that keep the sum of apy where the average belongs
AveragesSkipped(groups) == groups

\* Object.keys(groups).forEach(k => groups[k].avgApy /= groups[k].count)
Averages(groups) ==
    [k \in DOMAIN groups |->
        [groups[k] EXCEPT !.avgApy = DividedBy(@, groups[k].count)]]

RECURSIVE SumApy(_)
\* opportunities.reduce((sum, o) => sum + o.apy, 0)
SumApy(opps) ==
    IF opps = <<>> THEN Number(0)
    ELSE Plus(SumApy(SubSeq(opps, 1, Len(opps) - 1)), Number(opps[Len(opps)].apy.num))

RECURSIVE SumTvl(_)
\* opportunities.reduce((sum, o) => sum + parseFloat(o.tvl), 0)
SumTvl(opps) ==
    IF opps = <<>> THEN Number(0)
    ELSE Plus(SumTvl(SubSeq(opps, 1, Len(opps) - 1)), ParseFloat(opps[Len(opps)].tvl))

\* Math.max(...opportunities.map(o => o.apy)) on a non-empty array
MaxApy(opps) ==
    Number(CHOOSE m \in {opps[i].apy.num : i \in DOMAIN opps} :
              \A i \in DOMAIN opps : opps[i].apy.num <= m)

NoGroups == [k \in {} |-> 0]

\* the stats memo of useYieldData
Stats(opps) ==
    IF Len(opps) = 0
    THEN [count |-> 0, avgApy |-> Number(0), maxApy |-> Number(0),
          totalTvl |-> Number(0), byProtocol |-> NoGroups, byChain |-> NoGroups]
    ELSE [count |-> Len(opps),
          avgApy |-> DividedBy(SumApy(opps), Len(opps)),
          maxApy |-> MaxApy(opps),
          totalTvl |-> SumTvl(opps),
          byProtocol |-> Averages(GroupBy(NoGroups, opps, "protocol_name")),
          byChain |-> Averages(GroupBy(NoGroups, opps, "chain"))]

\* useYieldData renders: opportunities is the polled snapshot, stats its summary
UseYieldData ==
    /\ yieldOpportunities' = OrEmpty(yieldData)
    /\ stats' = Rendered(Stats(OrEmpty(yieldData)))
    /\ UNCHANGED <<heartbeatTimer, lastToast, ws, connected, subscriptions,
                   readyState, sent, timers, storeBuffers, data, opportunities,
                   allOpportunities, sortEngine, yieldData, history>>

-----------------------------------------------------------------------------
(* Specifications: Spec is the Connection Manager with the Subscription   *)
(* Registry, SpecBuf the Message Router with the buffers.                 *)

Init ==
    /\ ws = NULL
    /\ connected = FALSE
    /\ priceUpdates = <<>>
    /\ arbitrageAlerts = <<>>
    /\ yieldUpdates = <<>>
    /\ subscriptions = <<>>
    /\ readyState = <<>>
    /\ sent = <<>>
    /\ timers = 0
    /\ heartbeatTimer = TRUE
    /\ data = <<>>
    /\ opportunities = NotRendered
    /\ allOpportunities = NotRendered
    /\ sortEngine = "timsort"
    /\ yieldData = NotLoaded
    /\ yieldOpportunities = <<>>
    /\ stats = NotRendered
    /\ nRouted = [t \in BufferTypes |-> 0]
    /\ lastToast = "none"
    /\ nAlertToasts = 0
    /\ afterDrop = "no drop"
    /\ userDisconnected = FALSE
    /\ wanted = {}

Next ==
    \/ Connect
    \/ ReconnectTimerFires
    \/ Disconnect
    \/ \E s \in Sockets : OnOpen(s)
    \/ \E s \in Sockets : OnClose(s)
    \/ \E s \in Sockets : OnError(s)
    \/ \E channels \in ChannelLists : Subscribe(channels)
    \/ \E channels \in ChannelLists : Unsubscribe(channels)
    \/ SendPing
    \/ Heartbeat

Spec == Init /\ [][Next]_vars

\* The router on one connection, under a feed that overflows every buffer
NextBuf ==
    \/ Len(readyState) = 0 /\ Connect
    \/ \E s \in Sockets : OnOpen(s)
    \/ ReceiveFeed
    \/ ReceiveInfo

SpecBuf == Init /\ [][NextBuf]_vars

\* The router on a connection that a consumer opens, uses and closes
NextRouter ==
    \/ Len(readyState) = 0 /\ Connect
    \/ Disconnect
    \/ \E s \in Sockets : OnOpen(s)
    \/ \E s \in Sockets : OnClose(s)
    \/ \E s \in Sockets : OnError(s)
    \/ Subscribe(<<"prices">>)
    \/ Unsubscribe(<<"prices">>)
    \/ SendPing
    \/ Heartbeat
    \/ Receive

SpecRouter == Init /\ [][NextRouter]_vars

\* The connection lifecycle alone. A timer set with setTimeout runs once its
\* delay has passed, as long as the page lives: weak fairness of the callback.
NextLive ==
    \/ Connect
    \/ ReconnectTimerFires
    \/ Disconnect
    \/ \E s \in Sockets : OnOpen(s)
    \/ \E s \in Sockets : OnClose(s)
    \/ \E s \in Sockets : OnError(s)
    \/ SendPing
    \/ Heartbeat

SpecLive == Init /\ [][NextLive]_vars /\ WF_vars(ReconnectTimerFires)

\* Reconciliation over every buffer content and polled snapshot of bounded length
OpportunityIds == {1, 2}
Profits == {Num(1), Num(3)}

\* What the k-th record to arrive in the arbitrage buffer may be: a payload
\* object (its opportunity_id or its profit_percent possibly missing), JSON
\* text of a payload object, or text that does not parse
AlertsAt(k) ==
    LET objs == {[opportunity_id |-> i, profit_percent |-> p, seq |-> k] :
                    i \in OpportunityIds \cup {MissingId},
                    p \in Profits \cup {Undefined}}
        texts == {[str |-> <<[opportunity_id |-> i, profit_percent |-> Num(3),
                              seq |-> k]>>] : i \in OpportunityIds}
    IN  objs \cup texts \cup {[str |-> <<>>]}

\* What the j-th record of the polled snapshot may be; seq -j identifies it
PolledAt(j) ==
    {[opportunity_id |-> i, profit_percent |-> p, seq |-> 0 - j] :
        i \in OpportunityIds, p \in Profits}

\* The arrivals that may have filled the arbitrage buffer, oldest first
ArrivalSeqs ==
    LET all == UNION {AlertsAt(k) : k \in 1..MaxLen}
    IN  UNION {{f \in [1..n -> all] : \A k \in 1..n : f[k] \in AlertsAt(k)} :
                  n \in 0..MaxLen}

\* The polled snapshots
PolledSeqs ==
    LET all == UNION {PolledAt(j) : j \in 1..MaxLen}
    IN  UNION {{f \in [1..n -> all] : \A j \in 1..n : f[j] \in PolledAt(j)} :
                  n \in 0..MaxLen}

RECURSIVE Received(_)
\* The arbitrage buffer after the router handled the arrivals in order
Received(arrivals) ==
    IF arrivals = <<>> THEN <<>>
    ELSE Prepend(arrivals[Len(arrivals)],
                 Received(SubSeq(arrivals, 1, Len(arrivals) - 1)),
                 ArbitrageCapacity)

InitRec ==
    /\ ws = NULL
    /\ connected = FALSE
    /\ priceUpdates = <<>>
    /\ yieldUpdates = <<>>
    /\ subscriptions = <<>>
    /\ readyState = <<>>
    /\ sent = <<>>
    /\ timers = 0
    /\ heartbeatTimer = TRUE
    /\ \E arrivals \in ArrivalSeqs :
          /\ arbitrageAlerts = Received(arrivals)
          /\ nRouted = [t \in BufferTypes |->
                           IF t = "arbitrage_alert" THEN Len(arrivals) ELSE 0]
    /\ data \in PolledSeqs
    /\ opportunities = NotRendered
    /\ allOpportunities = NotRendered
    /\ sortEngine \in SortEngines
    /\ yieldData = NotLoaded
    /\ yieldOpportunities = <<>>
    /\ stats = NotRendered
    /\ lastToast = "none"
    /\ nAlertToasts = 0
    /\ afterDrop = "no drop"
    /\ userDisconnected = FALSE
    /\ wanted = {}

NextRec ==
    \/ UseArbitrage
    \/ RenderArbitragePanel

SpecRec == InitRec /\ [][NextRec]_vars

\* Yield aggregation over every polled snapshot of bounded length, with the
\* yield buffer empty or holding one update
ProtocolNames == {"A", "B"}
ChainNames == {"ethereum", "bsc"}
TvlValues == {Num(100), Str(300), NotANumber}
ApyValues == {Num(10), Num(20)}

PoolAddresses == <<"0xA", "0xB", "0xC", "0xD">>

\* What the j-th record of the polled yield snapshot may be
YieldsAt(j) ==
    {[pool_address |-> PoolAddresses[j], protocol_name |-> pr, chain |-> ch, tvl |-> tv, apy |-> ap] :
        pr \in ProtocolNames, ch \in ChainNames, tv \in TvlValues, ap \in ApyValues}

YieldSeqs ==
    LET all == UNION {YieldsAt(j) : j \in 1..MaxYields}
    IN  UNION {{f \in [1..n -> all] : \A j \in 1..n : f[j] \in YieldsAt(j)} :
                  n \in 0..MaxYields}

InitYield ==
    /\ ws = NULL
    /\ connected = FALSE
    /\ priceUpdates = <<>>
    /\ arbitrageAlerts = <<>>
    /\ \E n \in 0..1 :
          /\ yieldUpdates = [k \in 1..n |-> Payload("yield_update", k)]
          /\ nRouted = [t \in BufferTypes |-> IF t = "yield_update" THEN n ELSE 0]
    /\ subscriptions = <<>>
    /\ readyState = <<>>
    /\ sent = <<>>
    /\ timers = 0
    /\ heartbeatTimer = TRUE
    /\ data = <<>>
    /\ opportunities = NotRendered
    /\ allOpportunities = NotRendered
    /\ sortEngine = "timsort"
    /\ yieldData \in {NotLoaded} \cup {Loaded(v) : v \in YieldSeqs}
    /\ yieldOpportunities = <<>>
    /\ stats = NotRendered
    /\ lastToast = "none"
    /\ nAlertToasts = 0
    /\ afterDrop = "no drop"
    /\ userDisconnected = FALSE
    /\ wanted = {}

NextYield == UseYieldData

SpecYield == InitYield /\ [][NextYield]_vars

-----------------------------------------------------------------------------
(* Claims about the Connection Manager and the Subscription Registry *)

\* WebSocket s becomes open in this step: the connection reaches Connected
Opens(s) == readyState[s] = "CONNECTING" /\ readyState'[s] = "OPEN"

\* WebSocket s starts closing (ws.close()) or is closed in this step
Closes(s) ==
    /\ readyState'[s] # readyState[s]
    /\ readyState'[s] \in {"CLOSING", "CLOSED"}

ActiveSockets == {s \in Sockets : readyState[s] \in {"CONNECTING", "OPEN"}}

\* C1: after an explicit disconnect(), and until connect() is called again, no
\* reconnect timer is pending: the close event that disconnect() causes schedules
\* none and a timer pending at the call is cancelled, so no automatic connect
\* attempt can follow.
C1_NoReconnectAfterDisconnect == userDisconnected => timers = 0

\* C2: in every reachable state at most one reconnect timer is pending.
C2_AtMostOneReconnectTimer == timers <= 1

\* C3: connect(), called by a consumer or by the reconnect timer, is a no-op when
\* the state is Connecting or Connected: no WebSocket is created and ws and
\* connected are unchanged.
C3_ConnectNoOpWhenActive ==
    [][(Connect \/ ReconnectTimerFires) /\ ConnState \in {"Connecting", "Connected"}
          => UNCHANGED <<ws, connected, readyState>>]_vars

\* C4: at most one WebSocket that is connecting or open exists at any time.
C4_SingleActiveTransport == Cardinality(ActiveSockets) <= 1

\* C5: channels passed to subscribe() while Disconnected are in the registry
\* after the call, and when a WebSocket opens with a non-empty registry the one
\* and first request sent on it is a subscribe request for the registry.
C5_OfflineSubscribeReplayed ==
    [][/\ \A channels \in ChannelLists :
             Subscribe(channels) /\ ConnState = "Disconnected"
                => Range(channels) \subseteq Range(subscriptions')
       /\ \A s \in Sockets :
             Opens(s) /\ subscriptions' # <<>>
                => sent'[s] = <<[type |-> "subscribe", channels |-> subscriptions']>>
      ]_vars

\* C6: a step in which a WebSocket closes or starts closing (transport close,
\* disconnect()) leaves the registry unchanged, and a step in which a WebSocket
\* opens while the registry is non-empty sends exactly one request, a subscribe
\* request whose channel list is the registry's content, on that WebSocket.
C6_RegistrySurvivesAndIsReplayed ==
    [][\A s \in Sockets :
          /\ Closes(s) => subscriptions' = subscriptions
          /\ Opens(s) => subscriptions' = subscriptions
          /\ Opens(s) /\ subscriptions # <<>>
                => sent' = [sent EXCEPT ![s] =
                               Append(@, [type |-> "subscribe",
                                          channels |-> subscriptions])]
      ]_vars

\* C6 witness: a registry of two channels has survived the close of the
\* WebSocket they were subscribed on and was replayed on the next one.
C6_Witness ==
    \E r, s \in Sockets :
        /\ readyState[r] = "CLOSED" /\ sent[r] # <<>>
        /\ readyState[s] = "OPEN"
        /\ Len(subscriptions) = 2
        /\ sent[s] = <<[type |-> "subscribe", channels |-> subscriptions]>>

\* C7: unsubscribe(channels) leaves none of the given channels in the registry,
\* in every connection state.
C7_UnsubscribeRemoves ==
    [][\A channels \in ChannelLists :
          Unsubscribe(channels)
             => Range(channels) \cap Range(subscriptions') = {}]_vars

\* C8: subscribe([]) and unsubscribe([]) send no request and leave the registry
\* unchanged, in every connection state.
C8_EmptyChannelsNoOp ==
    [][Subscribe(<<>>) \/ Unsubscribe(<<>>) => UNCHANGED <<sent, subscriptions>>]_vars

-----------------------------------------------------------------------------
(* Claims about the Bounded Event Buffers *)

Buffer(type) ==
    CASE type = "price_update" -> priceUpdates
      [] type = "arbitrage_alert" -> arbitrageAlerts
      [] type = "yield_update" -> yieldUpdates

\* C9: after N routed messages of a type its buffer holds min(N, capacity)
\* payloads, the most recently received ones, newest first; with capacities
\* 100 (prices), 50 (arbitrage) and 50 (yield).
C9_BuffersHoldNewest ==
    \A type \in BufferTypes :
        LET buffer == Buffer(type)
            n == nRouted[type]
            capacity == IF type = "price_update" THEN 100 ELSE 50
        IN  /\ Len(buffer) = (IF n < capacity THEN n ELSE capacity)
            /\ \A i \in DOMAIN buffer : buffer[i] = Payload(type, n + 1 - i)

\* C9 witness: every buffer is full and has evicted its oldest payloads.
C9_Witness ==
    /\ nRouted["price_update"] > 100 /\ Len(priceUpdates) = 100
    /\ priceUpdates[100].seq = nRouted["price_update"] - 99
    /\ nRouted["arbitrage_alert"] > 50 /\ Len(arbitrageAlerts) = 50
    /\ arbitrageAlerts[1].seq = nRouted["arbitrage_alert"]
    /\ nRouted["yield_update"] > 50 /\ Len(yieldUpdates) = 50
    /\ yieldUpdates[50].seq = nRouted["yield_update"] - 49

-----------------------------------------------------------------------------
(* Claims about the Reconciliation Engine *)

\* The stream records of the buffer in order: payload objects and the values
\* of JSON text; text that does not parse gives no record
RECURSIVE StreamRecords(_)
StreamRecords(alerts) ==
    IF alerts = <<>> THEN <<>>
    ELSE LET a == Head(alerts)
             r == IF "str" \in DOMAIN a THEN a.str ELSE <<a>>
         IN  r \o StreamRecords(Tail(alerts))

IdsOf(records) == {records[i].opportunity_id : i \in DOMAIN records}
WithId(records, id) ==
    {records[i] : i \in {j \in DOMAIN records : records[j].opportunity_id = id}}

\* the first record with the identity, in the order given
FirstWithId(records, id) ==
    records[CHOOSE i \in DOMAIN records :
               /\ records[i].opportunity_id = id
               /\ \A j \in 1..(i - 1) : records[j].opportunity_id # id]

ShadowRule(out, stream, polled) ==
    \A id \in IdsOf(stream \o polled) :
        /\ WithId(out, id) = {FirstWithId(stream \o polled, id)}
        /\ id \in IdsOf(stream) => WithId(out, id) \subseteq Range(stream)

\* C10: a computed reconciliation keeps, for every identity among the stream
\* and polled records, the first record with it in the order stream then
\* polled; so a stream record shadows every polled record with its identity.
C10_FirstOccurrenceWins ==
    /\ opportunities.rendered /\ ~opportunities.threw
          => ShadowRule(opportunities.value, StreamRecords(arbitrageAlerts), data)
    /\ allOpportunities.rendered /\ ~allOpportunities.threw
          => ShadowRule(allOpportunities.value, StreamRecords(arbitrageAlerts), data)

\* C10 witness: both memos are computed, and a stream record shadows a polled
\* record with the same identity and another profit while a second polled
\* identity is kept from the snapshot.
C10_Witness ==
    /\ opportunities.rendered /\ allOpportunities.rendered
    /\ ~allOpportunities.threw
    /\ allOpportunities.value = opportunities.value
    /\ \E s \in Range(StreamRecords(arbitrageAlerts)), q \in Range(data), r \in Range(data) :
          /\ s.opportunity_id = q.opportunity_id
          /\ s.profit_percent # q.profit_percent
          /\ r.opportunity_id \notin IdsOf(StreamRecords(arbitrageAlerts))
          /\ s \in Range(opportunities.value)
          /\ r \in Range(opportunities.value)
          /\ q \notin Range(opportunities.value)

\* The values of the memos that were computed and returned
Outputs ==
    {m.value : m \in {x \in {opportunities, allOpportunities} :
                         x.rendered /\ ~x.threw}}

MergedRecords == StreamRecords(arbitrageAlerts) \o data

\* C11: a computed reconciliation holds no two records with the same identity.
C11_NoDuplicateIdentity ==
    \A out \in Outputs :
        \A i, j \in DOMAIN out :
            i # j => out[i].opportunity_id # out[j].opportunity_id

\* C11 witness: the merged records repeat an identity within the stream and
\* between stream and snapshot, and the hook's output is shorter than the merge.
C11_Witness ==
    /\ opportunities.rendered
    /\ Len(opportunities.value) >= 2
    /\ Len(opportunities.value) < Len(MergedRecords) - 1
    /\ \E i, j \in DOMAIN arbitrageAlerts, k \in DOMAIN data :
          /\ i # j
          /\ StreamRecords(arbitrageAlerts)[i].opportunity_id
                = StreamRecords(arbitrageAlerts)[j].opportunity_id
          /\ StreamRecords(arbitrageAlerts)[i].opportunity_id = data[k].opportunity_id

\* place of a record among the merged records
PlaceOf(r) == CHOOSE i \in DOMAIN MergedRecords : MergedRecords[i] = r

\* C12: a computed reconciliation is ordered descending by profit_percent, and
\* records with equal profit_percent keep the order they had after
\* deduplication.
C12_SortedDescendingStable ==
    \A out \in Outputs :
        \A i, j \in DOMAIN out :
            (i < j /\ ~out[i].profit_percent.nan /\ ~out[j].profit_percent.nan)
               => /\ out[i].profit_percent.num >= out[j].profit_percent.num
                  /\ out[i].profit_percent.num = out[j].profit_percent.num
                        => PlaceOf(out[i]) < PlaceOf(out[j])

\* C13: reconciling a computed reconciliation with an empty snapshot gives it
\* back unchanged.
C13_Idempotent ==
    /\ opportunities.rendered /\ ~opportunities.threw
          => ReconcileHook(opportunities.value, <<>>) = opportunities
    /\ allOpportunities.rendered /\ ~allOpportunities.threw
          => ReconcilePanel(allOpportunities.value, <<>>) = allOpportunities

\* C13 witness: both memos hold three records, two of them with equal
\* profit_percent, in another order than the merged records had.
C13_Witness ==
    /\ opportunities.rendered /\ allOpportunities.rendered
    /\ ~allOpportunities.threw
    /\ Len(opportunities.value) = 3
    /\ opportunities.value # UniqueFrom(<<>>, MergedRecords)
    /\ \E i, j \in DOMAIN opportunities.value :
          /\ i # j
          /\ ~opportunities.value[i].profit_percent.nan
          /\ opportunities.value[i].profit_percent = opportunities.value[j].profit_percent

C15_MalformedExcluded ==
    /\ \A m \in {opportunities, allOpportunities} : ~m.threw
    /\ \A out \in Outputs :
          \A i \in DOMAIN out :
              /\ out[i].opportunity_id # MissingId
              /\ ~out[i].profit_percent.nan

\* C30: when the buffer holds several alerts with one opportunity_id, a
\* computed reconciliation holds, for that identity, the payload received last
\* and no other record, whatever the polled snapshot holds.
C30_NewestAlertWins ==
    \A out \in Outputs :
        \A id \in IdsOf(StreamRecords(arbitrageAlerts)) \ {MissingId} :
            LET received == WithId(StreamRecords(arbitrageAlerts), id)
                newest == CHOOSE r \in received : \A q \in received : q.seq <= r.seq
            IN  WithId(out, id) = {newest}

\* Two alerts with one identity and different profits are in the buffer, the
\* snapshot holds the identity too, and the view holds the later alert only
C30_Witness ==
    /\ opportunities.rendered
    /\ \E a, b \in Range(StreamRecords(arbitrageAlerts)), q \in Range(data) :
          /\ a.opportunity_id # MissingId
          /\ a.opportunity_id = b.opportunity_id
          /\ a.opportunity_id = q.opportunity_id
          /\ a.seq > b.seq
          /\ a.profit_percent # b.profit_percent
          /\ WithId(opportunities.value, a.opportunity_id) = {a}

-----------------------------------------------------------------------------
(* Claims about the Message Router *)

\* The arbitrage_alert messages that carry a payload
AlertFrames ==
    {f \in Frames : f.parses /\ f.type = "arbitrage_alert" /\ f.data # NoPayload}

\* C16: every arbitrage_alert message has its payload prepended to the
\* arbitrage buffer, and the high-profit notification is raised exactly once
\* when the payload's profit_percent is greater than 2.0, be it a number or a
\* decimal string, and not at all when it is 2.0 or less.
C16_AlertPrependedAndNotified ==
    [][\A s \in Sockets, f \in AlertFrames :
          OnMessage(s, f) =>
             /\ arbitrageAlerts' = Prepend(f.data, arbitrageAlerts, ArbitrageCapacity)
             /\ nAlertToasts' =
                   IF f.data.profit_percent.num > HighProfitThreshold
                   THEN nAlertToasts + 1
                   ELSE nAlertToasts]_vars

\* C17: a price_update, arbitrage_alert or yield_update message without a
\* payload is handled like a message of unknown type: no buffer changes,
\* nothing is raised, and ConnectionState stays as it was.
C17_MissingPayloadDropped ==
    [][\A s \in Sockets, type \in BufferTypes :
          OnMessage(s, Envelope(type, NoPayload)) =>
             /\ UNCHANGED <<priceUpdates, arbitrageAlerts, yieldUpdates>>
             /\ UNCHANGED <<lastToast, nAlertToasts>>
             /\ ConnState' = ConnState]_vars

\* A frame that does not parse is handled in this step
DropsFrame ==
    \/ \E s \in Sockets : OnMessage(s, Unparseable)
    \/ afterDrop # "dropped" /\ afterDrop' = "dropped"

\* C18: a frame that does not parse is dropped, leaving ConnectionState, the
\* connection handle, the WebSocket, the three buffers and the registry as
\* they were; a message that arrives for a buffer after it is still routed.
C18_UnparseableFrameDropped ==
    [][/\ DropsFrame =>
             /\ ConnState' = ConnState
             /\ UNCHANGED <<ws, connected, readyState, subscriptions>>
             /\ UNCHANGED <<priceUpdates, arbitrageAlerts, yieldUpdates>>
       /\ \A s \in Sockets, f \in Frames :
             (afterDrop # "no drop" /\ f.parses /\ f.type \in BufferTypes
                 /\ OnMessage(s, f))
                => /\ Buffer(f.type)' = Prepend(f.data, Buffer(f.type), Capacity(f.type))
                   /\ afterDrop' = "routed"]_vars

\* The only message that reached a buffer did so after a frame was dropped,
\* on a connection that is still Connected
C18_Witness ==
    /\ afterDrop = "routed"
    /\ RoutedTotal = 1
    /\ Len(priceUpdates) = 1
    /\ ConnState = "Connected"

\* One of the store's operations or transport events other than a message
LifecycleStep ==
    \/ Connect
    \/ ReconnectTimerFires
    \/ Disconnect
    \/ \E s \in Sockets : OnOpen(s) \/ OnClose(s) \/ OnError(s)
    \/ \E channels \in ChannelLists : Subscribe(channels) \/ Unsubscribe(channels)
    \/ SendPing
    \/ Heartbeat

\* A message of type connected, subscribed, pong or of an unknown type
InfoStep ==
    \E s \in Sockets, type \in InfoTypes :
        OnMessage(s, Envelope(type, Payload(type, 0)))

-----------------------------------------------------------------------------
(* Claims about transport errors *)

\* The error event of a WebSocket is handled in this step
ErrorStep ==
    \/ \E s \in Sockets : OnError(s)
    \/ lastToast # "error" /\ lastToast' = "error"

\* C20: the error event of a WebSocket leaves ConnectionState and the
\* connection handle as they are; the close event of the WebSocket that the
\* store holds is what makes the state Disconnected.
C20_ErrorKeepsState ==
    [][/\ ErrorStep => (ConnState' = ConnState /\ UNCHANGED <<ws, connected>>)
       /\ \A s \in Sockets :
             (ws = s /\ readyState[s] # "CLOSED" /\ readyState'[s] = "CLOSED")
                => ConnState' = "Disconnected"]_vars

\* An error event was handled on the open WebSocket and the state is still Connected
C20_Witness ==
    /\ lastToast = "error"
    /\ ConnState = "Connected"

-----------------------------------------------------------------------------
(* Claims about the heartbeat and the connection lifecycle *)

\* sendPing, the heartbeat tick, or a pong message is handled in this step
PingStep ==
    \/ SendPing
    \/ Heartbeat
    \/ \E s \in Sockets : OnMessage(s, Envelope("pong", Payload("pong", 0)))

\* C21: whenever the state is Connected, the heartbeat tick finds the current
\* WebSocket open, so that its ping is sent; sending a ping and receiving a pong
\* leave ConnectionState as it is.
C21_HeartbeatPingsWhenConnected ==
    /\ [](ConnState = "Connected" => (ws # NULL /\ readyState[ws] = "OPEN"))
    /\ [][PingStep => ConnState' = ConnState]_vars

\* C22: after disconnect(), which is also what the unmount of App calls, no
\* heartbeat timer is scheduled.
C22_HeartbeatCancelled ==
    userDisconnected => ~heartbeatTimer

\* The WebSocket created last is s and its close event was handled
LatestClosed(s) == Len(readyState) = s /\ readyState[s] = "CLOSED"

\* C23: when the close event of the latest WebSocket was handled, a reconnect
\* timer is pending, and a new connect attempt follows, however many attempts
\* came before (up to the number of WebSockets of the model).
C23_RetriesForever ==
    /\ [](\A s \in Sockets : LatestClosed(s) => timers > 0)
    /\ \A s \in 1..(MaxSockets - 1) :
          (LatestClosed(s) /\ ~userDisconnected) ~> (Len(readyState) > s)

\* The first WebSocket closed without a disconnect(), and its reconnect timer
\* fired and made the second
C23_Witness ==
    /\ Len(readyState) = 2
    /\ readyState[1] = "CLOSED"
    /\ timers = 0
    /\ ~userDisconnected

\* The changes of ConnectionState that the lifecycle allows
Transitions ==
    {<<"Disconnected", "Connecting">>, <<"Connecting", "Connected">>,
     <<"Connecting", "Disconnected">>, <<"Connected", "Disconnected">>}

\* C24: every change of ConnectionState is Disconnected to Connecting,
\* Connecting to Connected, Connecting to Disconnected or Connected to
\* Disconnected; Connected is never entered from Disconnected.
C24_LegalTransitions ==
    [][ConnState' # ConnState => <<ConnState, ConnState'>> \in Transitions]_vars

\* C28: the connected flag is true exactly when the handle is an open
\* WebSocket, and the close event of a WebSocket that is not the handle leaves
\* the flag and the handle as they are.
C28_FlagMatchesHandle ==
    /\ [](connected <=> WsOpen)
    /\ [][\A s \in Sockets :
             (ws # s /\ readyState[s] # "CLOSED" /\ readyState'[s] = "CLOSED")
                => UNCHANGED <<ws, connected>>]_vars

RECURSIVE ServerChannels(_)
\* The channels a server holds after it processed the requests of log in order
ServerChannels(log) ==
    IF log = <<>> THEN {}
    ELSE LET before == ServerChannels(SubSeq(log, 1, Len(log) - 1))
             req == log[Len(log)]
         IN  CASE req.type = "subscribe" -> before \cup Range(req.channels)
               [] req.type = "unsubscribe" -> before \ Range(req.channels)
               [] OTHER -> before

\* C29: whenever the state is Connected, the channels the server holds for the
\* current WebSocket, once it processed every request sent on it, are the
\* channels of the Subscription Registry.
C29_ServerMatchesRegistry ==
    ConnState = "Connected"
       => /\ ws # NULL
          /\ ServerChannels(sent[ws]) = Range(subscriptions)

-----------------------------------------------------------------------------
(* Claims about the yield view and its aggregation *)

\* The records of opps whose field has the value key
Members(opps, field, key) == {i \in DOMAIN opps : opps[i][field] = key}

RECURSIVE SumOver(_, _, _)
\* The sum of a numeric field over the records of opps at the places idx
SumOver(opps, idx, field) ==
    IF idx = {} THEN 0
    ELSE LET i == CHOOSE j \in idx : TRUE
         IN  opps[i][field].num + SumOver(opps, idx \ {i}, field)

\* groups is the rollup of opps by field: one group per value of the field,
\* with the count of its records, the sum of their tvl and the mean of their apy
IsRollup(groups, opps, field) ==
    /\ DOMAIN groups = {opps[i][field] : i \in DOMAIN opps}
    /\ \A key \in DOMAIN groups :
          LET idx == Members(opps, field, key)
          IN  /\ groups[key].count = Cardinality(idx)
              /\ groups[key].totalTvl = Number(SumOver(opps, idx, "tvl"))
              /\ ~groups[key].avgApy.nan
              /\ groups[key].avgApy.num * Cardinality(idx)
                    = SumOver(opps, idx, "apy") * groups[key].avgApy.den

ValidTvl(opps) == SelectSeq(opps, LAMBDA o : ~o.tvl.nan)

\* C26: a record whose tvl is no valid number is left out of the aggregation:
\* count, totalTvl and avgApy, overall and per group, are those of the
\* remaining records.
C26_MalformedTvlExcluded ==
    stats.rendered =>
       LET expected == Stats(ValidTvl(yieldOpportunities))
           s == stats.value
       IN  /\ s.count = expected.count
           /\ s.totalTvl = expected.totalTvl
           /\ s.avgApy = expected.avgApy
           /\ s.byProtocol = expected.byProtocol
           /\ s.byChain = expected.byChain

\* C27: the yield view holds every payload of the yield buffer, none of the
\* polled records that such a payload shadows, and is ordered descending by apy.
C27_YieldViewReconciled ==
    stats.rendered =>
       LET view == yieldOpportunities
       IN  /\ \A k \in DOMAIN yieldUpdates :
                 \E i \in DOMAIN view : view[i] = yieldUpdates[k]
           /\ \A i \in DOMAIN view :
                 (\E k \in DOMAIN yieldUpdates :
                     yieldUpdates[k].pool_address = view[i].pool_address)
                    => view[i] \in Range(yieldUpdates)
           /\ \A i, j \in DOMAIN view :
                 i < j => view[i].apy.num >= view[j].apy.num

=============================================================================
